---------------------------- MODULE Spec2Model ----------------------------
(***************************************************************************)
(* A model of timing.js: the Timing object built over the W3C Navigation   *)
(* Timing marks of window.performance.timing.                              *)
(*                                                                         *)
(* JavaScript values are records tagged by their type.  A number n is held *)
(* in fixed point, in units of 1/MsPerSecond, so that the division by 1000 *)
(* that turns milliseconds into seconds is exact and is really performed:  *)
(* the integer 140 is Number(140000), the result 0.04 is Number(40).       *)
(***************************************************************************)
EXTENDS Integers, Sequences, FiniteSets, TLC

\* The divisor of timing() and time(): milliseconds per second.
MsPerSecond == 1000

\* Calls made while the document is still loading are allowed as long as the
\* console holds fewer than MaxPremature "not loaded yet" warnings.
MaxPremature == 1

\* The longest run of a timed block, in milliseconds.
MaxElapsed == 2

\* The largest redirect count the host reports.
MaxRedirects == 1

---------------------------------------------------------------------------
\* JavaScript values

Undefined == [type |-> "undefined"]

Number(n) == [type |-> "number", val |-> n]

Boolean(b) == [type |-> "boolean", val |-> b]

String(s) == [type |-> "string", val |-> s]

\* The integer i as a number.
Integer(i) == Number(i * MsPerSecond)

\* ToBoolean, as used by &&.
Truthy(v) ==
    CASE v.type = "undefined" -> FALSE
      [] v.type = "number"    -> v.val # 0
      [] v.type = "boolean"   -> v.val
      [] v.type = "string"    -> v.val # ""
      [] OTHER                -> FALSE

\* a - b on numbers.
Sub(a, b) == Number(a.val - b.val)

\* a / d on a number a and an integer divisor d.
Div(a, d) == Number(a.val \div d)

\* a !== 0
NotStrictlyZero(a) == ~(a.type = "number" /\ a.val = 0)

\* What reading a property of undefined raises.
TypeError == [type |-> "TypeError"]

---------------------------------------------------------------------------
\* The marks

MarkNames ==
    {"navigationStart", "unloadEventStart", "unloadEventEnd", "redirectStart",
     "redirectEnd", "fetchStart", "domainLookupStart", "domainLookupEnd",
     "connectStart", "connectEnd", "secureConnectionStart", "requestStart",
     "responseStart", "responseEnd", "domLoading", "domInteractive",
     "domContentLoadedEventStart", "domContentLoadedEventEnd", "domComplete",
     "loadEventStart", "loadEventEnd"}

\* The order in which the host records the marks (secureConnectionStart is
\* recorded during the connection, before connectEnd).
LifecycleOrder ==
    <<"navigationStart", "unloadEventStart", "unloadEventEnd", "redirectStart",
      "redirectEnd", "fetchStart", "domainLookupStart", "domainLookupEnd",
      "connectStart", "secureConnectionStart", "connectEnd", "requestStart",
      "responseStart", "responseEnd", "domLoading", "domInteractive",
      "domContentLoadedEventStart", "domContentLoadedEventEnd", "domComplete",
      "loadEventStart", "loadEventEnd">>

Pos(k) == CHOOSE i \in 1..Len(LifecycleOrder) : LifecycleOrder[i] = k

\* The diagnostics the module can write with warn().
PerformanceMsg == "window.performance is not implement."
TimingMsg      == "window.performance.timing is not implement."
NavigationMsg  == "window.performance.navigation is not implement."
NowMsg         == "window.performance.now is not implemented, using Date.now"
NotLoadedMsg   == "document is not loaded yet, timing for some segments may be incorrect."

FeatureMsgs == {PerformanceMsg, TimingMsg, NavigationMsg, NowMsg}
Messages    == FeatureMsgs \cup {NotLoadedMsg}

---------------------------------------------------------------------------
VARIABLES
    window,                  \* the host: which features it has, navigation data
    table,                   \* window.performance.timing
    readyState,              \* document.readyState
    progress,                \* how many marks of LifecycleOrder the host has passed
    pace,                    \* milliseconds from one mark to the next
    console,                 \* number of console.warn calls, per message
    performance_implemented,
    timing_implemented,
    navigation_implemented,
    navigationType,
    redirects,
    now,                     \* the clock behind now()
    now_is_native,
    pc,                      \* "idle", or "returned" after a call
    last                     \* the last call: operation, arguments, result

vars == <<window, table, readyState, progress, pace, console, performance_implemented,
          timing_implemented, navigation_implemented, navigationType, redirects,
          now, now_is_native, pc, last>>

moduleVars == <<performance_implemented, timing_implemented,
                navigation_implemented, navigationType, redirects, now,
                now_is_native>>

hostVars == <<window, table, readyState, progress, pace>>

---------------------------------------------------------------------------
\* The host environment

NavigationCodes == {0, 1, 2, 255}

Clocks == {"now", "webkitNow", "none"}

\* Every host: without window.performance there is no timing, no navigation
\* and no performance clock; without navigation its data is not there.
Hosts ==
    {w \in [performance : BOOLEAN, timing : BOOLEAN, navigation : BOOLEAN,
            clock : Clocks, console : BOOLEAN, type : NavigationCodes,
            redirectCount : 0..MaxRedirects] :
        /\ ~w.performance => (~w.timing /\ ~w.navigation /\ w.clock = "none")
        /\ ~w.navigation => (w.type = 0 /\ w.redirectCount = 0)}

\* The hosts of the interval calculator: a console, and with
\* window.performance a navigation source and a native clock; the mark source
\* is there or not.
CalculatorHosts ==
    {w \in Hosts :
        /\ w.console /\ w.type = 0 /\ w.redirectCount = 0
        /\ w.performance => (w.navigation /\ w.clock = "now")}

\* Marks the host may leave at zero (no previous document of the same origin,
\* no redirect, no TLS) or, for secureConnectionStart, not provide at all.
Optionals ==
    [unloadEventStart : BOOLEAN, unloadEventEnd : BOOLEAN, redirect : BOOLEAN,
     secure : {"absent", "zero", "set"}]

Recorded(k, o) ==
    CASE k = "unloadEventStart"                -> o.unloadEventStart
      [] k = "unloadEventEnd"                  -> o.unloadEventEnd
      [] k \in {"redirectStart", "redirectEnd"} -> o.redirect
      [] k = "secureConnectionStart"           -> o.secure = "set"
      [] OTHER                                 -> TRUE

\* The host reaches the marks of the lifecycle d milliseconds apart, the first
\* at time 1: all in the same millisecond (d = 0), or one after the other.
Paces == {0, 1}

Stamp(k, d) == Integer(1 + (Pos(k) - 1) * d)

\* window.performance.timing once the host has passed p marks.
Snapshot(p, o, d) ==
    [k \in MarkNames |->
        IF k = "secureConnectionStart" /\ o.secure = "absent" THEN Undefined
        ELSE IF Pos(k) <= p /\ Recorded(k, o) THEN Stamp(k, d)
        ELSE Integer(0)]

NoTable == [k \in MarkNames |-> Undefined]

\* document.readyState once the host has passed p marks.
ReadyStateAt(p) ==
    IF p >= Pos("domComplete") THEN "complete"
    ELSE IF p >= Pos("domInteractive") THEN "interactive"
    ELSE "loading"

\* A script runs once the document is being parsed.
ScriptProgress == Pos("domLoading")..Len(LifecycleOrder)

---------------------------------------------------------------------------
\* Construction of the module

\* Warnings written, counted per message.
NoWarnings == [m \in Messages |-> 0]

Plus(a, b) == [m \in Messages |-> a[m] + b[m]]

\* warn(message): one more warning on the console, if the host has one.
warn(message) ==
    IF window.console
    THEN [m \in Messages |-> IF m = message THEN 1 ELSE 0]
    ELSE NoWarnings

\* The warnings of feature detection and of the clock fallback.
DetectionWarnings(w) ==
    Plus(IF w.performance
         THEN Plus(IF ~w.timing THEN warn(TimingMsg) ELSE NoWarnings,
                   IF ~w.navigation THEN warn(NavigationMsg) ELSE NoWarnings)
         ELSE warn(PerformanceMsg),
         IF ~(w.performance /\ w.clock # "none") THEN warn(NowMsg) ELSE NoWarnings)

\* The switch over window.performance.navigation.type: no case ends in a
\* break, so every case runs on to the last assignment.
SwitchCases ==
    <<[code |-> 0,   name |-> "navigation"],
      [code |-> 1,   name |-> "reload"],
      [code |-> 2,   name |-> "history"],
      [code |-> 255, name |-> "unknown"]>>

NavigationTypeOf(code) ==
    IF \E i \in 1..Len(SwitchCases) : SwitchCases[i].code = code
    THEN String(SwitchCases[Len(SwitchCases)].name)
    ELSE Undefined

Construct(w) ==
    /\ performance_implemented = w.performance
    /\ timing_implemented = (w.performance /\ w.timing)
    /\ navigation_implemented = (w.performance /\ w.navigation)
    /\ navigationType =
          IF w.performance /\ w.navigation THEN NavigationTypeOf(w.type)
          ELSE Undefined
    /\ redirects =
          IF w.performance /\ w.navigation THEN Integer(w.redirectCount)
          ELSE Undefined
    /\ now = IF w.performance /\ w.clock # "none" THEN w.clock ELSE "Date.now"
    /\ now_is_native = (w.performance /\ w.clock # "none")
    /\ console = DetectionWarnings(w)

NoCall == [op |-> "none", start |-> "", end |-> "", ret |-> Undefined]

InitWith(hosts, optionals, positions, paces) ==
    /\ window \in hosts
    /\ progress \in positions
    /\ pace \in paces
    /\ readyState = ReadyStateAt(progress)
    /\ table \in IF window.timing
                 THEN {Snapshot(progress, o, pace) : o \in optionals}
                 ELSE {NoTable}
    /\ Construct(window)
    /\ pc = "idle"
    /\ last = NoCall

Init == InitWith(CalculatorHosts, Optionals, ScriptProgress, Paces)

---------------------------------------------------------------------------
\* The functions of the module.  A function that reads marks yields its
\* return value (ret) and the warnings it wrote (warns).

\* window.performance.timing[key]
Read(key) == IF window.performance /\ window.timing THEN table[key] ELSE TypeError

\* ready()
ready == readyState = "complete"

\* get without the test of timing_implemented.
getUnguarded(key) ==
    [ret |-> Read(key), warns |-> IF ~ready THEN warn(NotLoadedMsg) ELSE NoWarnings]

\* get that reports the missing mark source at every call.
getWarningWhenAbsent(key) ==
    IF timing_implemented
    THEN [ret |-> Read(key), warns |-> IF ~ready THEN warn(NotLoadedMsg) ELSE NoWarnings]
    ELSE [ret |-> Undefined, warns |-> warn(TimingMsg)]

\* get that hands out marks only once the document is loaded.
getWhenReady(key) ==
    IF timing_implemented
    THEN [ret |-> IF ready THEN Read(key) ELSE Undefined,
          warns |-> IF ~ready THEN warn(NotLoadedMsg) ELSE NoWarnings]
    ELSE [ret |-> Undefined, warns |-> NoWarnings]

\* get(key)
get(key) ==
    IF timing_implemented
    THEN [ret |-> Read(key), warns |-> IF ~ready THEN warn(NotLoadedMsg) ELSE NoWarnings]
    ELSE [ret |-> Undefined, warns |-> NoWarnings]

\* timing with the test for zero marks left out: only undefined is refused.
timingDefinedOnly(start, end) ==
    IF timing_implemented
    THEN LET t0 == get(start)
             t1 == get(end)
         IN  [ret   |-> IF t0.ret # Undefined /\ t1.ret # Undefined
                        THEN Div(Sub(t1.ret, t0.ret), MsPerSecond)
                        ELSE Undefined,
              warns |-> Plus(t0.warns, t1.warns)]
    ELSE [ret |-> Undefined, warns |-> NoWarnings]

\* timing with the conversion to seconds left out.
timingInMilliseconds(start, end) ==
    IF timing_implemented
    THEN LET t0 == get(start)
             t1 == get(end)
         IN  [ret   |-> IF Truthy(t0.ret) /\ Truthy(t1.ret)
                        THEN Sub(t1.ret, t0.ret)
                        ELSE Undefined,
              warns |-> Plus(t0.warns, t1.warns)]
    ELSE [ret |-> Undefined, warns |-> NoWarnings]

\* timing(start, end)
timing(start, end) ==
    IF timing_implemented
    THEN LET t0 == get(start)
             t1 == get(end)
         IN  [ret   |-> IF Truthy(t0.ret) /\ Truthy(t1.ret)
                        THEN Div(Sub(t1.ret, t0.ret), MsPerSecond)
                        ELSE Undefined,
              warns |-> Plus(t0.warns, t1.warns)]
    ELSE [ret |-> Undefined, warns |-> NoWarnings]

\* fromSameOrigin with || in the place of &&.
fromSameOriginEither ==
    LET s == get("unloadEventStart")
        e == get("unloadEventEnd")
    IN  IF NotStrictlyZero(s.ret)
        THEN [ret |-> Boolean(TRUE), warns |-> s.warns]
        ELSE [ret |-> Boolean(NotStrictlyZero(e.ret)), warns |-> Plus(s.warns, e.warns)]

\* fromSameOrigin(): && does not evaluate its second operand, and so does not
\* call get a second time, when the first is false.
fromSameOrigin ==
    LET s == get("unloadEventStart")
        e == get("unloadEventEnd")
    IN  IF NotStrictlyZero(s.ret)
        THEN [ret |-> Boolean(NotStrictlyZero(e.ret)), warns |-> Plus(s.warns, e.warns)]
        ELSE [ret |-> Boolean(FALSE), warns |-> s.warns]

real == timing("navigationStart", "loadEventEnd")

total == timing("fetchStart", "loadEventEnd")

network == timing("fetchStart", "responseEnd")

redirect == timing("redirectEnd", "redirectStart")

download == timing("responseStart", "responseEnd")

application == timing("requestStart", "responseEnd")

dns == timing("domainLookupStart", "domainLookupEnd")

tcp == timing("connectStart", "connectEnd")

ssl == timing("secureConnectionStart", "connectEnd")

request == timing("requestStart", "responseStart")

response == timing("responseStart", "responseEnd")

parse == timing("domLoading", "domInteractive")

dom == timing("domLoading", "domComplete")

\* external that goes on to the difference when only one operand is there
\* (|| in the place of &&); a missing operand then counts as 0.
externalEither ==
    LET d == timing("domLoading", "domComplete")
        p == timing("domLoading", "domInteractive")
        n(v) == IF v.type = "number" THEN v ELSE Number(0)
    IN  IF d.ret # Undefined \/ p.ret # Undefined
        THEN [ret |-> Sub(n(d.ret), n(p.ret)),
              warns |-> Plus(Plus(d.warns, p.warns), Plus(d.warns, p.warns))]
        ELSE [ret |-> Undefined, warns |-> Plus(d.warns, p.warns)]

\* external(): dom() and parse() are called once for the test and once more
\* for the difference.
external ==
    LET d == dom
        p == parse
    IN  IF d.ret # Undefined /\ p.ret # Undefined
        THEN [ret |-> Sub(dom.ret, parse.ret),
              warns |-> Plus(Plus(d.warns, p.warns), Plus(dom.warns, parse.warns))]
        ELSE [ret |-> Undefined, warns |-> Plus(d.warns, p.warns)]

load == timing("loadEventStart", "loadEventEnd")

domContentLoad == timing("domContentLoadedEventStart", "domContentLoadedEventEnd")

unload == timing("unloadEventStart", "unloadEventEnd")

timeToFirstByte == timing("fetchStart", "responseStart")

timeToLastByte == timing("fetchStart", "responseEnd")

timeToInteractive == timing("fetchStart", "domInteractive")

timeToDomComplete == timing("fetchStart", "domComplete")

timeToDomReady == timing("fetchStart", "domContentLoadedEventEnd")

\* value.toFixed(3): the sign, the integer part and the three decimals.
toFixed3(value) ==
    LET a == IF value.val < 0 THEN -value.val ELSE value.val
    IN  [negative |-> value.val < 0, whole |-> a \div MsPerSecond,
         decimals |-> a % MsPerSecond]

\* pp(f), on the value f returns: "N/A\n", or the value to three decimals
\* and "s\n".
pp(value) ==
    IF value = Undefined
    THEN [text |-> "N/A", fixed |-> toFixed3(Number(0))]
    ELSE [text |-> "s", fixed |-> toFixed3(value)]

\* log(): the metrics of the report, in its order; each line is pp of one.
LogMetrics ==
    <<network, download, application, parse, external, dom,
      timeToFirstByte, timeToInteractive, timeToDomReady, total>>

RECURSIVE SumWarns(_)
SumWarns(rs) ==
    IF rs = <<>> THEN NoWarnings ELSE Plus(Head(rs).warns, SumWarns(Tail(rs)))

log ==
    [ret   |-> String([i \in 1..Len(LogMetrics) |-> pp(LogMetrics[i].ret)]),
     warns |-> SumWarns(LogMetrics)]

\* What a throw statement of the caller's block raises.
Thrown == [type |-> "exception"]

\* The blocks a caller hands to timeMS and time: one that does nothing, one
\* that throws, and blocks that call back into the module.
Blocks ==
    {"nothing", "throws", "get", "timing", "fromSameOrigin", "external", "log",
     "report"}

\* block.apply(binding, args): the warnings the block writes through the
\* module, and whether it throws.
apply(block) ==
    [thrown |-> block = "throws",
     warns  |->
        CASE block = "get"            -> get("fetchStart").warns
          [] block = "timing"         -> timing("fetchStart", "loadEventEnd").warns
          [] block = "fromSameOrigin" -> fromSameOrigin.warns
          [] block = "external"       -> external.warns
          [] block = "log"            -> log.warns
          [] block = "report"         ->
                Plus(Plus(get("fetchStart").warns, log.warns),
                     Plus(external.warns, fromSameOrigin.warns))
          [] OTHER                    -> NoWarnings]

\* timeMS(block, ...): t0 is the reading of now() before the block and t1 the
\* one after it.  The block runs between the two; what it throws goes on to
\* the caller and no second reading is made.
timeMS(block, t0, t1) ==
    LET b == apply(block)
    IN  [ret   |-> IF b.thrown THEN Thrown ELSE Sub(Integer(t1), Integer(t0)),
         warns |-> b.warns]

\* time(block, ...)
time(block, t0, t1) ==
    LET ms == timeMS(block, t0, t1)
    IN  [ret   |-> IF ms.ret = Thrown THEN Thrown ELSE Div(ms.ret, MsPerSecond),
         warns |-> ms.warns]

\* public_methods: the derived metrics by their public names, aliases included.
MetricNames ==
    {"real", "total", "network", "redirect", "download", "application", "dns",
     "tcp", "ssl", "request", "response", "parse", "external", "dom", "load",
     "domContentLoad", "unload", "timeToFirstByte", "ttfb", "timeToLastByte",
     "ttlb", "timeToInteractive", "tti", "timeToDomComplete", "ttdc",
     "timeToDomReady", "ttdr", "timeToLoad", "ttl"}

public_methods(name) ==
    CASE name = "real"              -> real
      [] name = "total"             -> total
      [] name = "network"           -> network
      [] name = "redirect"          -> redirect
      [] name = "download"          -> download
      [] name = "application"       -> application
      [] name = "dns"               -> dns
      [] name = "tcp"               -> tcp
      [] name = "ssl"               -> ssl
      [] name = "request"           -> request
      [] name = "response"          -> response
      [] name = "parse"             -> parse
      [] name = "external"          -> external
      [] name = "dom"               -> dom
      [] name = "load"              -> load
      [] name = "domContentLoad"    -> domContentLoad
      [] name = "unload"            -> unload
      [] name = "timeToFirstByte"   -> timeToFirstByte
      [] name = "ttfb"              -> timeToFirstByte
      [] name = "timeToLastByte"    -> timeToLastByte
      [] name = "ttlb"              -> timeToLastByte
      [] name = "timeToInteractive" -> timeToInteractive
      [] name = "tti"               -> timeToInteractive
      [] name = "timeToDomComplete" -> timeToDomComplete
      [] name = "ttdc"              -> timeToDomComplete
      [] name = "timeToDomReady"    -> timeToDomReady
      [] name = "ttdr"              -> timeToDomReady
      [] name = "timeToLoad"        -> total
      [] name = "ttl"               -> total

---------------------------------------------------------------------------
\* The operations a caller can invoke

\* A call returns r: its warnings go to the console and its value to the caller.
Returns(op, start, end, r) ==
    /\ pc = "idle"
    /\ r.warns[NotLoadedMsg] > 0 => console[NotLoadedMsg] < MaxPremature
    /\ console' = Plus(console, r.warns)
    /\ last' = [op |-> op, start |-> start, end |-> end, ret |-> r.ret]
    /\ pc' = "returned"
    /\ UNCHANGED <<hostVars, moduleVars>>

Silent(value) == [ret |-> value, warns |-> NoWarnings]

ReadyCall == Returns("ready", "", "", Silent(Boolean(ready)))

GetCall(key) == Returns("get", key, "", get(key))

TimingCall(start, end) == Returns("timing", start, end, timing(start, end))

MetricCall(name) == Returns(name, "", "", public_methods(name))

FromSameOriginCall == Returns("fromSameOrigin", "", "", fromSameOrigin)

LogCall == Returns("log", "", "", log)

\* The readings of now() around the block: performance.now never runs
\* backwards, Date.now may.
Readings ==
    {t \in (0..MaxElapsed) \X (0..MaxElapsed) : now_is_native => t[1] <= t[2]}

\* now()
NowCall == \E t \in 0..MaxElapsed : Returns("now", "", "", Silent(Integer(t)))

\* timeMS(block): the call is recorded with its block as argument.
TimeMSCall ==
    \E block \in Blocks, t \in Readings :
        Returns("timeMS", block, "", timeMS(block, t[1], t[2]))

\* time(block), also public as measure
TimeCall ==
    \E block \in Blocks, t \in Readings :
        Returns("time", block, "", time(block, t[1], t[2]))

\* The caller takes the result; nothing of it is kept.
Discard ==
    /\ pc = "returned"
    /\ pc' = "idle"
    /\ last' = NoCall
    /\ UNCHANGED <<hostVars, moduleVars, console>>

\* The host records the next mark of the lifecycle and moves the document's
\* ready state with it.  The module's functions run to completion, so the host
\* acts between calls.
HostAdvance ==
    /\ pc = "idle"
    /\ progress < Len(LifecycleOrder)
    /\ progress' = progress + 1
    /\ readyState' = ReadyStateAt(progress + 1)
    /\ table' = IF window.timing
                THEN [table EXCEPT ![LifecycleOrder[progress + 1]] =
                                        Stamp(LifecycleOrder[progress + 1], pace)]
                ELSE table
    /\ UNCHANGED <<window, pace, moduleVars, console, pc, last>>

Call ==
    \/ ReadyCall
    \/ \E key \in MarkNames : GetCall(key)
    \/ \E start, end \in MarkNames : TimingCall(start, end)
    \/ \E name \in MetricNames : MetricCall(name)
    \/ FromSameOriginCall
    \/ LogCall
    \/ NowCall
    \/ TimeMSCall
    \/ TimeCall

Next == Call \/ Discard \/ HostAdvance

Spec == Init /\ [][Next]_vars

\* Every host, for the claims about feature detection: a document without
\* optional marks, from the end of parsing on.
LateProgress == Pos("domContentLoadedEventEnd")..Len(LifecycleOrder)

PlainDocument ==
    {o \in Optionals : ~o.unloadEventStart /\ ~o.unloadEventEnd /\ ~o.redirect
                         /\ o.secure = "zero"}

InitEnv == InitWith(Hosts, PlainDocument, LateProgress, {1})

SpecEnv == InitEnv /\ [][Next]_vars

---------------------------------------------------------------------------
\* Vocabulary of the properties

Returned(op) == pc = "returned" /\ last.op = op

\* A mark value that is not available: not there, or zero.
Unavailable(v) == v = Undefined \/ v = Integer(0)

Available(v) == v.type = "number" /\ v.val # 0

NotAvailable == Undefined

\* The start and end marks the catalog lists for each pairwise metric.
Catalog ==
    [real              |-> <<"navigationStart", "loadEventEnd">>,
     total             |-> <<"fetchStart", "loadEventEnd">>,
     network           |-> <<"fetchStart", "responseEnd">>,
     download          |-> <<"responseStart", "responseEnd">>,
     application       |-> <<"requestStart", "responseEnd">>,
     dns               |-> <<"domainLookupStart", "domainLookupEnd">>,
     tcp               |-> <<"connectStart", "connectEnd">>,
     ssl               |-> <<"secureConnectionStart", "connectEnd">>,
     request           |-> <<"requestStart", "responseStart">>,
     response          |-> <<"responseStart", "responseEnd">>,
     parse             |-> <<"domLoading", "domInteractive">>,
     dom               |-> <<"domLoading", "domComplete">>,
     load              |-> <<"loadEventStart", "loadEventEnd">>,
     domContentLoad    |-> <<"domContentLoadedEventStart", "domContentLoadedEventEnd">>,
     unload            |-> <<"unloadEventStart", "unloadEventEnd">>,
     timeToFirstByte   |-> <<"fetchStart", "responseStart">>,
     timeToLastByte    |-> <<"fetchStart", "responseEnd">>,
     timeToInteractive |-> <<"fetchStart", "domInteractive">>,
     timeToDomComplete |-> <<"fetchStart", "domComplete">>,
     timeToDomReady    |-> <<"fetchStart", "domContentLoadedEventEnd">>]

---------------------------------------------------------------------------
\* C1: with the mark source present, timing(start, end) over a pair of which
\* one mark is unavailable (absent or zero) returns "not available", never 0
\* and never a negative number; and redirect() is "not available" when
\* redirectStart and redirectEnd are both zero.
C1_UnavailableMarkGivesNotAvailable ==
    /\ (Returned("timing") /\ timing_implemented
          /\ (Unavailable(table[last.start]) \/ Unavailable(table[last.end])))
       => last.ret = NotAvailable
    /\ (Returned("redirect") /\ timing_implemented
          /\ table["redirectStart"] = Integer(0)
          /\ table["redirectEnd"] = Integer(0))
       => last.ret = NotAvailable

\* timing over a recorded start mark and an end mark that is still zero has
\* returned "not available".
C1_Witness ==
    /\ Returned("timing") /\ timing_implemented
    /\ Available(table[last.start])
    /\ table[last.end] = Integer(0)
    /\ last.ret = NotAvailable

\* C2: with the mark source present, timing(start, end) over two available
\* marks with value(end) >= value(start) returns (value(end) - value(start))
\* / 1000: the result times 1000 is the millisecond difference; and each
\* pairwise metric of the catalog returns what timing returns for the marks
\* the catalog lists for it.
C2_IntervalIsDifferenceInSeconds ==
    /\ (Returned("timing") /\ timing_implemented
          /\ Available(table[last.start]) /\ Available(table[last.end])
          /\ table[last.end].val >= table[last.start].val)
       => /\ last.ret.type = "number"
          /\ last.ret.val * MsPerSecond
                = table[last.end].val - table[last.start].val
    /\ \A m \in DOMAIN Catalog :
          Returned(m) => last.ret = timing(Catalog[m][1], Catalog[m][2]).ret

\* timing over two distinct recorded marks has returned a positive duration.
C2_Witness ==
    /\ Returned("timing") /\ timing_implemented
    /\ Available(table[last.start]) /\ Available(table[last.end])
    /\ table[last.end].val > table[last.start].val
    /\ last.ret.type = "number"
    /\ last.ret.val > 0

\* C3: external() is dom() - parse() whenever dom() and parse() are both
\* available, and "not available" whenever one of them is not.
C3_ExternalIsDomMinusParse ==
    Returned("external") =>
        IF dom.ret # NotAvailable /\ parse.ret # NotAvailable
        THEN /\ last.ret.type = "number"
             /\ last.ret.val = dom.ret.val - parse.ret.val
        ELSE last.ret = NotAvailable

\* external() has returned a number, the time from domInteractive to
\* domComplete.
C3_Witness ==
    /\ Returned("external")
    /\ dom.ret # NotAvailable /\ parse.ret # NotAvailable
    /\ last.ret.type = "number"
    /\ last.ret.val * MsPerSecond
          = table["domComplete"].val - table["domInteractive"].val
    /\ last.ret.val > 0

\* C4, as stated: with the mark source present, fromSameOrigin() is false
\* when both unload marks are zero and true for every other mark table, also
\* when exactly one of the two is zero.
C4_FalseOnlyWhenBothZero ==
    (Returned("fromSameOrigin") /\ timing_implemented) =>
        last.ret = Boolean(~(table["unloadEventStart"] = Integer(0)
                             /\ table["unloadEventEnd"] = Integer(0)))

\* C4, amended: with the mark source present, fromSameOrigin() is true
\* exactly when neither unloadEventStart nor unloadEventEnd is zero; it is
\* false as soon as one of the two is zero.
C4_TrueOnlyWhenNeitherZero ==
    (Returned("fromSameOrigin") /\ timing_implemented) =>
        last.ret = Boolean(table["unloadEventStart"] # Integer(0)
                           /\ table["unloadEventEnd"] # Integer(0))

\* fromSameOrigin() has returned false with exactly one unload mark zero.
C4_Witness ==
    /\ Returned("fromSameOrigin") /\ timing_implemented
    /\ table["unloadEventStart"] # Integer(0)
    /\ table["unloadEventEnd"] = Integer(0)
    /\ last.ret = Boolean(FALSE)

\* C5: when the mark source is absent, get(key), timing(start, end) and every
\* derived metric, external() included, return "not available"; none raises.
C5_AbsentSourceGivesNotAvailable ==
    (pc = "returned" /\ ~timing_implemented
       /\ last.op \in {"get", "timing"} \cup MetricNames)
    => last.ret = NotAvailable

\* get has returned "not available" on a host without window.performance.
C5_Witness ==
    /\ Returned("get")
    /\ ~window.performance /\ ~timing_implemented
    /\ last.ret = NotAvailable

\* C6: when the mark source is absent, fromSameOrigin() returns "not
\* available" or false, never true.
C6_AbsentSourceIsNeverSameOrigin ==
    (Returned("fromSameOrigin") /\ ~timing_implemented)
    => last.ret # Boolean(TRUE)

\* C7: with the navigation source present, navigationType is the name the
\* enumeration gives the host's code: 0 navigation, 1 reload, 2 history,
\* 255 unknown.
C7_NavigationTypeIsEnumerated ==
    navigation_implemented =>
        navigationType =
            String(CASE window.type = 0   -> "navigation"
                     [] window.type = 1   -> "reload"
                     [] window.type = 2   -> "history"
                     [] window.type = 255 -> "unknown")

\* The number of feature diagnostics on the console.
RECURSIVE Count(_, _)
Count(c, ms) ==
    IF ms = {} THEN 0
    ELSE LET m == CHOOSE x \in ms : TRUE IN c[m] + Count(c, ms \ {m})

Card(b) == IF b THEN 1 ELSE 0

\* C8, as stated: the console (of a host that has one) holds one feature
\* diagnostic for each absent feature (mark source, navigation source, native
\* clock), whatever has been called since initialization.
C8_OneDiagnosticPerAbsentFeature ==
    window.console =>
        Count(console, FeatureMsgs)
           = Card(~timing_implemented) + Card(~navigation_implemented)
             + Card(~now_is_native)

\* C8, amended: whatever has been called since initialization, the console
\* holds the feature diagnostics of initialization and no other: on a host
\* with a console, one for window.performance when that is absent, else one
\* for each of timing and navigation that is absent, and one for the absent
\* native clock; on a host without a console, none.
C8_DiagnosticsOnlyAtInitialization ==
    \A m \in FeatureMsgs :
        console[m] =
            IF ~window.console THEN 0
            ELSE CASE m = PerformanceMsg -> Card(~performance_implemented)
                   [] m = TimingMsg      ->
                        Card(performance_implemented /\ ~timing_implemented)
                   [] m = NavigationMsg  ->
                        Card(performance_implemented /\ ~navigation_implemented)
                   [] m = NowMsg         -> Card(~now_is_native)

\* On a host with window.performance but no timing, no navigation and no
\* native clock, timing has been called while the document was loading and
\* the console holds the three diagnostics of initialization.
C8_Witness ==
    /\ Returned("timing")
    /\ window.console /\ performance_implemented
    /\ ~timing_implemented /\ ~navigation_implemented /\ ~now_is_native
    /\ ~ready
    /\ Count(console, FeatureMsgs) = 3

\* The interval the marks of table t give for the pair (start, end).
IntervalOf(t, start, end) ==
    IF Available(t[start]) /\ Available(t[end])
    THEN Number((t[end].val - t[start].val) \div MsPerSecond)
    ELSE NotAvailable

\* C9: no call writes to the mark table, and what timing and the pairwise
\* metrics return is decided by the marks at the moment of the call alone:
\* "not available" while a mark is zero, (end - start) / 1000 once both are
\* recorded.
C9_NothingCached ==
    [][(pc = "idle" /\ pc' = "returned") =>
          /\ table' = table
          /\ (timing_implemented /\ last'.op = "timing") =>
                last'.ret = IntervalOf(table', last'.start, last'.end)
          /\ (timing_implemented /\ last'.op \in DOMAIN Catalog) =>
                last'.ret = IntervalOf(table', Catalog[last'.op][1],
                                       Catalog[last'.op][2])]_vars

\* dom() has returned the time from domLoading to domComplete, after a call
\* made while the document was still loading (which left its two warnings on
\* the console).
C9_Witness ==
    /\ Returned("dom") /\ timing_implemented /\ ready
    /\ console[NotLoadedMsg] = 2
    /\ last.ret = IntervalOf(table, "domLoading", "domComplete")
    /\ last.ret.type = "number"

\* The marks that are set respect the order of the lifecycle.
LifecycleOrdered(t) ==
    \A i, j \in 1..Len(LifecycleOrder) :
        (i < j /\ Available(t[LifecycleOrder[i]]) /\ Available(t[LifecycleOrder[j]]))
        => t[LifecycleOrder[i]].val <= t[LifecycleOrder[j]].val

\* C10: over a mark table whose marks respect the lifecycle order, every
\* catalog metric, redirect() included, is "not available" or a non-negative
\* number.
C10_NoNegativeDuration ==
    (pc = "returned" /\ last.op \in MetricNames /\ LifecycleOrdered(table))
    => (last.ret = NotAvailable \/ last.ret.val >= 0)

=============================================================================
